---- MODULE Spec2Model ----
(***************************************************************************)
(* A model of marblecutter-openaerialmap's catalog resolution:             *)
(*   - web.py: make_catalog / make_remote_catalog behind                   *)
(*     cachetools.func.lru_cache (the catalog registry);                   *)
(*   - catalogs.py: OAMSceneCatalog (concurrent child construction) and    *)
(*     OINMetaCatalog (construction, get_sources, headers).                *)
(* Each part has its own specification over the shared variable list; a    *)
(* part's actions leave the other parts' variables unchanged.              *)
(***************************************************************************)
EXTENDS Integers, Sequences, FiniteSets, TLC

VARIABLES
    \* ---- registry (web.py) ----
    fn,         \* the lru_cache-decorated function this cache belongs to
    cache,      \* its LRU cache: a sequence of [key, val], least recently used first
    thr,        \* per request thread: its position in the lru_cache wrapper
    fetches,    \* per key: how many times the wrapped function was entered
    usedSince,  \* per key: the other keys used (hit or stored) since its last use
    everStored, \* keys whose built catalog was stored at least once
    \* ---- OAMSceneCatalog.__init__ (catalogs.py) ----
    declared,   \* scene["meta"]["sources"]: the scene document's declared sources
    fut,        \* per submitted child build: the state of its future
    fs,         \* the futures executor.map's result iterator has yet to yield
    gathered,   \* the list being built from executor.map's results
    scenePc,    \* where the constructing thread is in OAMSceneCatalog.__init__
    firstDone,  \* position (in submission order) of the child build that ended first
    \* ---- OINMetaCatalog (catalogs.py) ----
    world,      \* what the metadata URI serves and what the raster header holds
    imgPc,      \* "new", "ready" (constructed) or "raised" (__init__ raised)
    img,        \* the constructed catalog's attributes
    imgErr,     \* the exception __init__ raised
    req,        \* the arguments of the last get_sources call
    yielded,    \* the Sources that call yielded
    hdr,        \* the outcome of the last read of the headers property
    \* ---- S3 configuration and object addresses (web.py) ----
    S3_BUCKET,  \* the module global S3_BUCKET, a string of characters
    S3_PREFIX,  \* the module global S3_PREFIX, a string of characters
    cfgPc,      \* "import" (globals read, not yet normalized) or "serving"
    fetched     \* the S3 objects that make_catalog calls have asked for

None == "None"

(***************************************************************************)
(* Bounds of the model.                                                    *)
(***************************************************************************)
\* How often the wrapped function may be entered for one key.
MaxFetches == 2
\* lru_cache() is used with its default capacity (128 in cachetools.func);
\* the model runs the same cache with a small capacity, so that a full cache
\* and an eviction are reachable.
maxsize == 2

\* Two request threads (one task per inbound request).
Threads == {"t1", "t2"}

(***************************************************************************)
(* Keys: cachetools' hashkey is the tuple of the call's arguments.         *)
(*   make_catalog(scene_id, scene_idx, image_id=None)                      *)
(*   make_remote_catalog(type, id)                                         *)
(* Each decorated function has a cache and a lock of its own and shares    *)
(* nothing with the other, so the model runs one of them, chosen in Init.  *)
(***************************************************************************)
Fns == {"make_catalog", "make_remote_catalog"}
CatalogArgs == {<<"scene", 0, None>>, <<"scene", 0, "img0">>, <<"scene", 0, "img1">>}
RemoteArgs == {<<"user", "u1">>, <<"user", "u2">>, <<"user", "u3">>}
ArgsOf(f) == IF f = "make_catalog" THEN CatalogArgs ELSE RemoteArgs
Keys == ArgsOf(fn)

(***************************************************************************)
(* cachetools.LRUCache as a sequence of [key, val], least recent first.    *)
(***************************************************************************)
RECURSIVE Without(_, _)
Without(c, k) ==
    IF c = <<>> THEN <<>>
    ELSE IF Head(c).key = k THEN Without(Tail(c), k)
    ELSE <<Head(c)>> \o Without(Tail(c), k)

CachedKeys(c) == {c[i].key : i \in 1..Len(c)}

CachedVal(c, k) == c[CHOOSE i \in 1..Len(c) : c[i].key = k].val

\* LRUCache.__getitem__: the key becomes the most recently used.
\* (LruGetFifo: a cache that forgets to refresh the key on a hit.)
LruGetFifo(c, k) == c
LruGet(c, k) == Without(c, k) \o <<[key |-> k, val |-> CachedVal(c, k)]>>

\* LRUCache.popitem: drops the least recently used entry.
LruPopitem(c) == Tail(c)

\* LRUCache.__setitem__: a new key into a full cache pops first; the key
\* becomes the most recently used.
LruSet(c, k, v) ==
    LET room == IF k \notin CachedKeys(c) /\ Len(c) + 1 > maxsize
                THEN LruPopitem(c) ELSE c
    IN  Without(room, k) \o <<[key |-> k, val |-> v]>>

(***************************************************************************)
(* History kept for the claims: a use of key k (a hit or a store) empties  *)
(* usedSince[k] and adds k to usedSince of every other key.                *)
(***************************************************************************)
Touch(us, k) == [j \in DOMAIN us |-> IF j = k THEN {} ELSE us[j] \cup {k}]

regVars == <<fn, cache, thr, fetches, usedSince, everStored>>
sceneVars == <<declared, fut, fs, gathered, scenePc, firstDone>>
imgVars == <<world, imgPc, img, imgErr, req, yielded, hdr>>
cfgVars == <<S3_BUCKET, S3_PREFIX, cfgPc, fetched>>
vars == <<regVars, sceneVars, imgVars, cfgVars>>


\* What a thread holds before its first call, and what a call that raised
\* NoCatalogAvailable leaves its caller with.
NoKey == <<>>
NoVal == [kind |-> "None"]
Raised == [kind |-> "NoCatalogAvailable"]
IdleThread == [pc |-> "idle", key |-> NoKey, val |-> NoVal, hit |-> FALSE]

\* No OINMetaCatalog is under construction.
Nothing == [kind |-> "None"]
ImageIdle ==
    /\ world = Nothing
    /\ imgPc = "new"
    /\ img = Nothing
    /\ imgErr = "None"
    /\ req = Nothing
    /\ yielded = <<>>
    /\ hdr = Nothing

\* A normalized configuration with no call made: bucket "b", empty prefix.
ConfigIdle ==
    /\ S3_BUCKET = <<"b">>
    /\ S3_PREFIX = <<>>
    /\ cfgPc = "serving"
    /\ fetched = {}

SceneIdle ==
    /\ fut = <<>>
    /\ fs = <<>>
    /\ gathered = <<>>
    /\ scenePc = "idle"
    /\ firstDone = 0

RegistryStart ==
    /\ cache = <<>>
    /\ thr = [t \in Threads |-> IdleThread]
    /\ fetches = [k \in ArgsOf(fn) |-> 0]
    /\ usedSince = [k \in ArgsOf(fn) |-> {}]
    /\ everStored = {}

InitRegistry ==
    /\ fn \in Fns
    /\ RegistryStart
    /\ declared = <<>>
    /\ SceneIdle
    /\ ImageIdle
    /\ ConfigIdle

(***************************************************************************)
(* The wrapped functions' bodies: which catalog a call constructs.         *)
(*   make_catalog: image_id truthy -> OINMetaCatalog, else OAMSceneCatalog *)
(*   make_remote_catalog: RemoteCatalog                                    *)
(* A constructed catalog is identified by its key and by the number of the *)
(* construction that made it.                                              *)
(***************************************************************************)
make_catalog(scene_id, scene_idx, image_id, n) ==
    IF image_id # None
    THEN [kind |-> "OINMetaCatalog", of |-> <<scene_id, scene_idx, image_id>>, build |-> n]
    ELSE [kind |-> "OAMSceneCatalog", of |-> <<scene_id, scene_idx, image_id>>, build |-> n]

make_remote_catalog(type, id, n) ==
    [kind |-> "RemoteCatalog", of |-> <<type, id>>, build |-> n]

Construct(f, k, n) ==
    IF f = "make_catalog" THEN make_catalog(k[1], k[2], k[3], n)
    ELSE make_remote_catalog(k[1], k[2], n)

(***************************************************************************)
(* The lru_cache wrapper, one action per step a thread takes.              *)
(*   with lock: try: return cache[k]  (hit) / except KeyError: (miss)      *)
(*   v = func(args)                   (outside the lock)                   *)
(*   with lock: cache[k] = v                                               *)
(*   return v                                                              *)
(***************************************************************************)
WrapperHit(t, k) ==
    /\ thr[t].pc = "idle"
    /\ k \in CachedKeys(cache)
    /\ thr' = [thr EXCEPT ![t] = [pc |-> "idle", key |-> k,
                                   val |-> CachedVal(cache, k), hit |-> TRUE]]
    /\ cache' = LruGet(cache, k)
    /\ usedSince' = Touch(usedSince, k)
    /\ UNCHANGED <<cfgVars, sceneVars, imgVars, fn, fetches, everStored>>

WrapperMiss(t, k) ==
    /\ thr[t].pc = "idle"
    /\ k \notin CachedKeys(cache)
    /\ fetches[k] < MaxFetches
    /\ thr' = [thr EXCEPT ![t] = [pc |-> "call", key |-> k, val |-> NoVal, hit |-> FALSE]]
    /\ fetches' = [fetches EXCEPT ![k] = @ + 1]
    /\ UNCHANGED <<cfgVars, sceneVars, imgVars, fn, cache, usedSince, everStored>>

\* The body returns a catalog ...
BuildSucceeds(t) ==
    /\ thr[t].pc = "call"
    /\ thr' = [thr EXCEPT ![t].pc = "store",
                          ![t].val = Construct(fn, thr[t].key, fetches[thr[t].key])]
    /\ UNCHANGED <<cfgVars, sceneVars, imgVars, fn, cache, fetches, usedSince, everStored>>

\* ... or raises: `except Exception: raise NoCatalogAvailable()`, which the
\* wrapper lets through without storing anything.
BuildFails(t) ==
    /\ thr[t].pc = "call"
    /\ thr' = [thr EXCEPT ![t].pc = "idle", ![t].val = Raised]
    /\ UNCHANGED <<cfgVars, sceneVars, imgVars, fn, cache, fetches, usedSince, everStored>>

WrapperStore(t) ==
    /\ thr[t].pc = "store"
    /\ cache' = LruSet(cache, thr[t].key, thr[t].val)
    /\ usedSince' = Touch(usedSince, thr[t].key)
    /\ everStored' = everStored \cup {thr[t].key}
    /\ thr' = [thr EXCEPT ![t].pc = "idle"]
    /\ UNCHANGED <<cfgVars, sceneVars, imgVars, fn, fetches>>

NextRegistry ==
    \/ \E t \in Threads, k \in Keys : WrapperHit(t, k)
    \/ \E t \in Threads, k \in Keys : WrapperMiss(t, k)
    \/ \E t \in Threads : BuildSucceeds(t)
    \/ \E t \in Threads : BuildFails(t)
    \/ \E t \in Threads : WrapperStore(t)

SpecRegistry == InitRegistry /\ [][NextRegistry]_vars

(***************************************************************************)
(* OAMSceneCatalog.__init__ (catalogs.py), run by the thread that is       *)
(* inside make_catalog(scene_id, scene_idx) after a miss.                  *)
(***************************************************************************)
\* The most sources a scene document declares in the model.
MaxSources == 6
\* multiprocessing.cpu_count() of the host.
cpu_count == 1
max_workers == cpu_count * 5

SceneKey == <<"scene", 0, None>>

\* A declared source: source["meta"]["source"], a URI ending in _warped.vrt,
\* kept as its stem and its suffix.
SourceUri(i) == [stem |-> i, suffix |-> "_warped.vrt"]
Declared(n) == [i \in 1..n |-> [meta |-> [source |-> SourceUri(i)]]]

\* str.replace(old, new) on such a URI: the stem holds neither text.
Replace(uri, old, new) == [uri EXCEPT !.suffix = IF @ = old THEN new ELSE @]

\* _build_catalog(source): the child OINMetaCatalog, named by its metadata URI.
build_catalog(source) ==
    [kind |-> "OINMetaCatalog",
     uri |-> Replace(source.meta.source, "_warped.vrt", "_meta.json")]

\* reversed(scene["meta"]["sources"])
Reversed(q) == [i \in 1..Len(q) |-> q[Len(q) + 1 - i]]
SceneSources(q) == Reversed(q)

Running == {i \in DOMAIN fut : fut[i] = "running"}
Queued == {i \in DOMAIN fut : fut[i] = "queued"}
AnyChildFailed == \E i \in DOMAIN fut : fut[i] = "failed"

RECURSIVE SeqWithout(_, _)
SeqWithout(q, x) ==
    IF q = <<>> THEN <<>>
    ELSE IF Head(q) = x THEN Tail(q)
    ELSE <<Head(q)>> \o SeqWithout(Tail(q), x)

Elems(q) == {q[i] : i \in 1..Len(q)}

\* result_iterator: `yield fs.pop().result()` after fs.reverse(): the next
\* result waited for is that of the earliest submitted future not yet yielded.
\* (NextAsCompleted: a gather that takes whichever future has finished.)
NextAsCompleted ==
    IF \E i \in Elems(fs) : fut[i] \in {"ok", "failed"}
    THEN CHOOSE i \in Elems(fs) : fut[i] \in {"ok", "failed"} /\
            \A j \in Elems(fs) : fut[j] \in {"ok", "failed"} => j >= i
    ELSE Head(fs)
NextFuture == Head(fs)

\* ThreadPoolExecutor.__exit__ -> shutdown(wait=True): every worker is joined.
\* (ShutdownNoWait: leaving the pool without joining the workers.)
ShutdownNoWait == TRUE
ShutdownJoined == Running = {}

\* The scheme test, the fetch of the scene document, its fields, and
\* executor.map submitting one child build per reversed source.
SceneOpen(t) ==
    /\ thr[t].pc = "call" /\ thr[t].key = SceneKey
    /\ scenePc \in {"idle", "raised"}
    /\ fut' = [i \in 1..Len(declared) |-> "queued"]
    /\ fs' = [i \in 1..Len(declared) |-> i]
    /\ gathered' = <<>>
    /\ firstDone' = 0
    /\ scenePc' = "gather"
    /\ UNCHANGED <<cfgVars, regVars, imgVars, declared>>

\* S3.get_object or json.loads raises, or the document lacks a field.
SceneFetchFails(t) ==
    /\ thr[t].pc = "call" /\ thr[t].key = SceneKey
    /\ scenePc \in {"idle", "raised"}
    /\ fut' = <<>> /\ fs' = <<>> /\ gathered' = <<>> /\ firstDone' = 0
    /\ scenePc' = "raised"
    /\ thr' = [thr EXCEPT ![t].pc = "idle", ![t].val = Raised]
    /\ UNCHANGED <<cfgVars, imgVars, fn, cache, fetches, usedSince, everStored, declared>>

\* A pool worker takes the oldest work item whose future was not cancelled.
WorkerStart(i) ==
    /\ i \in Queued
    /\ \A j \in Queued : j >= i
    /\ Cardinality(Running) < max_workers
    /\ fut' = [fut EXCEPT ![i] = "running"]
    /\ UNCHANGED <<cfgVars, regVars, imgVars, declared, fs, gathered, scenePc, firstDone>>

\* OINMetaCatalog(uri) returns ...
ChildOk(i) ==
    /\ i \in Running
    /\ fut' = [fut EXCEPT ![i] = "ok"]
    /\ firstDone' = IF firstDone = 0 THEN i ELSE firstDone
    /\ UNCHANGED <<cfgVars, regVars, imgVars, declared, fs, gathered, scenePc>>

\* ... or raises.
ChildFails(i) ==
    /\ i \in Running
    /\ fut' = [fut EXCEPT ![i] = "failed"]
    /\ firstDone' = IF firstDone = 0 THEN i ELSE firstDone
    /\ UNCHANGED <<cfgVars, regVars, imgVars, declared, fs, gathered, scenePc>>

\* list(executor.map(...)): the next result is there and is appended.
GatherResult ==
    /\ scenePc = "gather" /\ fs # <<>>
    /\ fut[NextFuture] = "ok"
    /\ gathered' = Append(gathered, build_catalog(SceneSources(declared)[NextFuture]))
    /\ fs' = SeqWithout(fs, NextFuture)
    /\ UNCHANGED <<cfgVars, regVars, imgVars, declared, fut, scenePc, firstDone>>

\* (GatherSkipFailed: a gather that drops a failed child and goes on.)
GatherSkipFailed ==
    /\ scenePc = "gather" /\ fs # <<>>
    /\ fut[NextFuture] = "failed"
    /\ fs' = SeqWithout(fs, NextFuture)
    /\ UNCHANGED <<cfgVars, regVars, imgVars, declared, fut, gathered, scenePc, firstDone>>

\* The next result is an exception: result() re-raises it, and the
\* iterator's `finally` cancels the futures not yet yielded (cancel() takes
\* effect only on a future that has not started).
GatherRaises ==
    /\ scenePc = "gather" /\ fs # <<>>
    /\ fut[NextFuture] = "failed"
    /\ fut' = [i \in DOMAIN fut |->
                 IF i \in Elems(fs) /\ fut[i] = "queued" THEN "cancelled" ELSE fut[i]]
    /\ fs' = <<>>
    /\ scenePc' = "exit_exc"
    /\ UNCHANGED <<cfgVars, regVars, imgVars, declared, gathered, firstDone>>

\* Leaving the `with` block after the list is complete; __init__ returns and
\* make_catalog hands the catalog to the wrapper.
SceneBuilt(t) ==
    /\ scenePc = "gather" /\ fs = <<>>
    /\ ShutdownJoined
    /\ thr[t].pc = "call" /\ thr[t].key = SceneKey
    /\ scenePc' = "built"
    /\ thr' = [thr EXCEPT ![t].pc = "store",
                          ![t].val = [kind |-> "OAMSceneCatalog", of |-> SceneKey,
                                      build |-> fetches[SceneKey],
                                      sources |-> gathered]]
    /\ UNCHANGED <<cfgVars, imgVars, fn, cache, fetches, usedSince, everStored,
                   declared, fut, fs, gathered, firstDone>>

\* Leaving the `with` block with the exception; it leaves __init__, and
\* make_catalog's `except Exception` raises NoCatalogAvailable.
SceneRaises(t) ==
    /\ scenePc = "exit_exc"
    /\ ShutdownJoined
    /\ thr[t].pc = "call" /\ thr[t].key = SceneKey
    /\ scenePc' = "raised"
    /\ thr' = [thr EXCEPT ![t].pc = "idle", ![t].val = Raised]
    /\ UNCHANGED <<cfgVars, imgVars, fn, cache, fetches, usedSince, everStored,
                   declared, fut, fs, gathered, firstDone>>

\* The steps of the thread that constructs the scene.
ConstructorStep ==
    \/ GatherResult
    \/ GatherRaises
    \/ \E t \in Threads : SceneBuilt(t)
    \/ \E t \in Threads : SceneRaises(t)

InitScene ==
    /\ fn = "make_catalog"
    /\ RegistryStart
    /\ declared \in {Declared(n) : n \in 0..MaxSources}
    /\ SceneIdle
    /\ ImageIdle
    /\ ConfigIdle

NextScene ==
    \/ WrapperMiss("t1", SceneKey)
    \/ WrapperHit("t1", SceneKey)
    \/ SceneOpen("t1")
    \/ SceneFetchFails("t1")
    \/ \E i \in DOMAIN fut : WorkerStart(i)
    \/ \E i \in DOMAIN fut : ChildOk(i)
    \/ \E i \in DOMAIN fut : ChildFails(i)
    \/ GatherResult
    \/ GatherRaises
    \/ SceneBuilt("t1")
    \/ SceneRaises("t1")
    \/ WrapperStore("t1")

SpecScene == InitScene /\ [][NextScene]_vars

(***************************************************************************)
(* Scene claims.                                                           *)
(***************************************************************************)
\* Every OAMSceneCatalog a caller holds or the registry stores.
SceneObjects ==
    {thr[t].val : t \in {u \in Threads : thr[u].val.kind = "OAMSceneCatalog"}}
    \cup {cache[i].val : i \in {j \in 1..Len(cache) : cache[j].val.kind = "OAMSceneCatalog"}}

\* C3: the child list of a scene catalog is the reverse of the declared
\* source order, whatever the order in which the child builds ended.
C3_ReversedOrder ==
    \A o \in SceneObjects :
        o.sources = [i \in 1..Len(declared) |->
                        [kind |-> "OINMetaCatalog",
                         uri |-> [stem |-> declared[Len(declared) + 1 - i].meta.source.stem,
                                  suffix |-> "_meta.json"]]]

\* C3 witness: a stored scene of three declared sources [S1, S2, S3] whose
\* child list starts with S3's catalog although S1's build (submitted
\* third) was the first to end.
C3_Witness ==
    /\ Len(declared) = 3
    /\ Len(cache) = 1 /\ cache[1].val.kind = "OAMSceneCatalog"
    /\ cache[1].val.sources[1].uri.stem = 3
    /\ cache[1].val.sources[3].uri.stem = 1
    /\ firstDone = 3

\* C4: when a child build fails, no scene catalog comes out of that
\* construction, neither to the caller nor into the registry, and a scene
\* catalog never holds fewer children than the document declares.
C4_NoPartialScene ==
    /\ \A o \in SceneObjects : Len(o.sources) = Len(declared)
    /\ AnyChildFailed =>
          /\ cache = <<>>
          /\ \A t \in Threads : thr[t].pc # "store" /\ thr[t].val.kind # "OAMSceneCatalog"

\* C4 witness: a construction in which a child other than the first failed
\* after earlier children had been gathered; the caller got
\* NoCatalogAvailable and the registry is empty.
C4_Witness ==
    /\ scenePc = "raised"
    /\ thr["t1"].val = Raised /\ thr["t1"].pc = "idle"
    /\ cache = <<>>
    /\ \E i \in DOMAIN fut : i > 1 /\ fut[i] = "failed" /\ Len(gathered) = i - 1
    /\ \E j \in DOMAIN fut : fut[j] = "ok"

InBuild(t) == thr[t].pc \in {"call", "store"}

\* C1 (as claimed): two concurrent resolve calls with an identical key that
\* both arrive while the key is not cached lead to exactly one construction:
\* no two threads are ever inside the wrapped function, or holding its fresh
\* result, for the same key at once, and no key is fetched a second time
\* while it has never left the cache.
C1_SingleConstruction ==
    \A t1, t2 \in Threads :
        (t1 # t2 /\ InBuild(t1) /\ InBuild(t2)) => thr[t1].key # thr[t2].key

\* C6 (as claimed): once a key's catalog was built and stored, no later
\* resolve of that key misses: the cache never evicts.
C6_StoredKeyNeverMisses ==
    [][\A t \in Threads : \A k \in everStored : ~WrapperMiss(t, k)]_vars

\* C6 (amended): a stored key stays cached, and so is served without a new
\* construction, as long as fewer than maxsize distinct other keys were used
\* since its last use.
C6_LruRetention ==
    \A k \in everStored :
        Cardinality(usedSince[k]) < maxsize => k \in CachedKeys(cache)

\* C6 witness: a thread's resolve of a stored key was a hit that returned
\* the cached catalog, maxsize - 1 other keys were used after it, and the
\* key is still cached.
C6_Witness ==
    \E t \in Threads : \E k \in everStored :
        /\ thr[t].pc = "idle" /\ thr[t].hit /\ thr[t].key = k
        /\ k \in CachedKeys(cache)
        /\ thr[t].val = CachedVal(cache, k)
        /\ fetches[k] = 1
        /\ Cardinality(usedSince[k]) = maxsize - 1

(***************************************************************************)
(* OINMetaCatalog (catalogs.py).                                           *)
(***************************************************************************)
\* Coordinates run over 0..MaxCoord degrees.
MaxCoord == 3
\* Resolutions are counted in the ground size of a pixel at zoom level
\* UnitZoom, that is (2 * pi * 6378137) / (256 * 2^UnitZoom) metres, so that
\* log2((2 * pi * 6378137) / (resolution * 256)) = UnitZoom - log2(count).
UnitZoom == 25

S3Scheme == <<"s", "3", ":", "/", "/">>
HttpScheme == <<"h", "t", "t", "p", ":", "/", "/">>
HttpsScheme == <<"h", "t", "t", "p", "s", ":", "/", "/">>
\* The metadata URIs a catalog is constructed from.
URIs ==
    { S3Scheme \o <<"b", "/", "m">>,
      HttpScheme \o <<"h", "/", "m">>,
      HttpsScheme \o <<"h", "/", "m">>,
      <<"f", "t", "p", ":", "/", "/", "h", "/", "m">>,
      <<"s", "3", ":", "b", "/", "m">> }

\* str.startswith(prefix)
startswith(str, prefix) ==
    Len(str) >= Len(prefix) /\ SubSeq(str, 1, Len(prefix)) = prefix

(***************************************************************************)
(* JSON documents: a field is absent, null, or a string.                   *)
(***************************************************************************)
Absent == "<absent>"
Null == "<null>"
DocFields == {"title", "provider", "platform", "uuid",
              "acquisition_start", "acquisition_end"}

\* `key in d` and d.get(key)
Has(d, key) == d[key] # Absent
Get(d, key) == IF d[key] = Absent THEN Null ELSE d[key]
\* Python truth of a JSON string or null
Truthy(v) == v # Null /\ v # ""

DateValues == {Absent, Null, "", "2017-05-01T10:00:00Z"}
EndValues == {Absent, Null, "", "2017-06-30T10:00:00Z"}
\* Provider and platform names; the second one ends in U+00E9.
NameValues == {Absent, "Acme", "Cafe'"}
NameChars(name) ==
    IF name = "Acme" THEN <<"A", "c", "m", "e">>
    ELSE <<"C", "a", "f", "U+00E9">>

DefaultDoc ==
    [title |-> "Image", provider |-> "Acme", platform |-> Absent, uuid |-> "img.tif",
     acquisition_start |-> "2017-05-01T10:00:00Z", acquisition_end |-> Absent]
\* What a server sends along with a non-success status.
ErrorDoc == [f \in DocFields |-> Absent]

Docs ==
    {[DefaultDoc EXCEPT !.acquisition_start = a, !.acquisition_end = e] :
        a \in DateValues, e \in EndValues}
    \cup {[DefaultDoc EXCEPT !.provider = p, !.platform = q] :
        p \in NameValues, q \in NameValues}
    \cup {[DefaultDoc EXCEPT !.uuid = u] : u \in {Absent, Null}}

(***************************************************************************)
(* Boxes (left, bottom, right, top) and coordinate reference systems.      *)
(* Besides WGS84 the model has one more CRS, with the axes of WGS84 and    *)
(* half a degree as its unit.                                              *)
(***************************************************************************)
WGS84_CRS == "EPSG:4326"
HalfDegreeCRS == "half-degree"
CRSs == {WGS84_CRS, HalfDegreeCRS}
Coords == 0..MaxCoord
Boxes == {<<l, b, r, t>> : l \in Coords, b \in Coords, r \in Coords, t \in Coords}
\* A raster and a tile cover an area: left < right and bottom < top.
WellFormed(box) == box[1] < box[3] /\ box[2] < box[4]
WgsBoxes == {box \in Boxes : WellFormed(box)}
\* The same box in the units of crs.
InCRS(crs, box) == IF crs = WGS84_CRS THEN box ELSE [i \in 1..4 |-> 2 * box[i]]

\* warp.transform_bounds(crs, WGS84_CRS, *bounds)
transform_bounds(crs, box) ==
    IF crs = WGS84_CRS THEN box ELSE [i \in 1..4 |-> box[i] \div 2]

(***************************************************************************)
(* marblecutter.get_zoom(resolution, op=round):                            *)
(*   int(op(log((2 * pi * 6378137) / (resolution * 256)) / log(2)))        *)
(* With the resolution a whole count r of zoom-UnitZoom pixels this is     *)
(* op(UnitZoom - log2(r)): UnitZoom - floor(log2(r)) for op = ceil and     *)
(* UnitZoom - round(log2(r)) for op = round (log2 of a whole number is     *)
(* never half-way between two integers).                                   *)
(***************************************************************************)
RECURSIVE Pow2(_)
Pow2(n) == IF n <= 0 THEN 1 ELSE 2 * Pow2(n - 1)

RECURSIVE FloorLog2(_)
FloorLog2(r) == IF r < 2 THEN 0 ELSE 1 + FloorLog2(r \div 2)

\* round(log2(r)): one more than the floor iff r >= 2^(floor + 1/2)
RoundLog2(r) ==
    LET f == FloorLog2(r)
    IN  IF (r * r) \div Pow2(2 * f) >= 2 THEN f + 1 ELSE f

get_zoom(resolution, op) ==
    IF op = "ceil" THEN UnitZoom - FloorLog2(resolution)
    ELSE UnitZoom - RoundLog2(resolution)

Max2(pair) == IF pair[1] >= pair[2] THEN pair[1] ELSE pair[2]

(***************************************************************************)
(* Raster headers, as get_source(uuid) opens them.                         *)
(***************************************************************************)
RasterRes == {<<16, 16>>, <<24, 16>>, <<3, 5>>}
NoTags == [min |-> Null, max |-> Null, mean |-> Null]
DefaultRaster ==
    [available |-> TRUE, crs |-> WGS84_CRS, bounds |-> <<0, 0, 1, 1>>,
     res |-> <<16, 16>>, dtype |-> "uint8", count |-> 3,
     global_min |-> Null, global_max |-> Null, stats |-> <<NoTags, NoTags, NoTags>>]

\* The boxes that rasters and requests in the half-degree CRS cover.
HalfDegreeBoxes == {<<0, 0, 1, 1>>, <<1, 0, 2, 2>>}
GeoRasters ==
    {[DefaultRaster EXCEPT !.bounds = box, !.res = r] :
        box \in WgsBoxes, r \in RasterRes}
    \cup {[DefaultRaster EXCEPT !.crs = HalfDegreeCRS,
                                !.bounds = InCRS(HalfDegreeCRS, box)] :
        box \in HalfDegreeBoxes}

\* 16-bit rasters with one or two bands and some of the statistics tags.
TaggedRasters ==
    {[DefaultRaster EXCEPT !.dtype = "uint16", !.count = Len(st),
                           !.global_min = g, !.global_max = h, !.stats = st] :
        g \in {Null, "0"}, h \in {Null, "4095"},
        st \in { <<NoTags>>,
                 <<[min |-> "1", max |-> "9", mean |-> "5"]>>,
                 <<[min |-> "1", max |-> Null, mean |-> Null], NoTags>> }}

Worlds ==
    {[status |-> "ok", body |-> "object", doc |-> DefaultDoc, raster |-> r] :
        r \in GeoRasters \cup TaggedRasters}
    \cup {[status |-> "ok", body |-> "object", doc |-> d, raster |-> DefaultRaster] :
        d \in Docs}
    \cup {[status |-> st, body |-> b,
           doc |-> IF st = "ok" THEN DefaultDoc ELSE ErrorDoc,
           raster |-> [DefaultRaster EXCEPT !.available = a]] :
        st \in {"ok", "not_found", "unreachable"},
        b \in {"object", "array", "garbage"}, a \in BOOLEAN}

(***************************************************************************)
(* OINMetaCatalog.__init__(uri)                                            *)
(***************************************************************************)
\* The try block: what the fetch and the parse leave in oin_meta, or that
\* they raised. S3.get_object raises on a non-success answer;
\* requests.get(uri).json() does not look at the status and raises only when
\* the host cannot be reached or the body is no JSON.
FetchMeta(uri) ==
    IF startswith(uri, S3Scheme)
    THEN IF world.status # "ok" \/ world.body = "garbage" THEN "raise" ELSE world.body
    ELSE IF startswith(uri, HttpScheme) \/ startswith(uri, HttpsScheme)
    THEN IF world.status = "unreachable" \/ world.body = "garbage"
         THEN "raise" ELSE world.body
    ELSE "raise"

\* The per-band statistics read when the raster is not 8-bit.
BandValues(raster, band) ==
    LET t == raster.stats[band + 1]
        lo == IF t.min # Null THEN t.min ELSE raster.global_min
        hi == IF t.max # Null THEN t.max ELSE raster.global_max
    IN  [min |-> lo, max |-> hi, mean |-> t.mean]

MetaValues(raster) ==
    IF raster.dtype # "uint8"
    THEN [band \in 0..(raster.count - 1) |-> BandValues(raster, band)]
    ELSE <<>>

\* self._maxzoom and self._minzoom from approximate_zoom
MinZoomSeven(approximate_zoom) == approximate_zoom - 7
MaxZoomOf(approximate_zoom) == approximate_zoom + 3
MinZoomOf(approximate_zoom) == approximate_zoom - 10

Constructed(uri) ==
    LET oin_meta == world.doc
        src == world.raster
        bounds == transform_bounds(src.crs, src.bounds)
        approximate_zoom == get_zoom(Max2(src.res), "ceil")
    IN  [kind |-> "OINMetaCatalog",
         meta |-> oin_meta,
         values |-> MetaValues(src),
         metadata_url |-> uri,
         name |-> Get(oin_meta, "title"),
         provider |-> Get(oin_meta, "provider"),
         source |-> Get(oin_meta, "uuid"),
         bounds |-> bounds,
         resolution |-> src.res,
         center |-> << <<bounds[1] + bounds[3], 2>>, <<bounds[2] + bounds[4], 2>>,
                       approximate_zoom - 3 >>,
         maxzoom |-> MaxZoomOf(approximate_zoom),
         minzoom |-> MinZoomOf(approximate_zoom)]

\* Which exception __init__ raises, "None" when it returns.
\*   - anything raised inside the try block becomes NoCatalogAvailable;
\*   - oin_meta.get on a JSON value that is no object: AttributeError;
\*   - get_source(self._source) on a raster that cannot be opened (or on a
\*     missing uuid): the raster library's error, not caught.
InitError(uri) ==
    IF FetchMeta(uri) = "raise" THEN "NoCatalogAvailable"
    ELSE IF FetchMeta(uri) = "array" THEN "AttributeError"
    ELSE IF ~Truthy(Get(world.doc, "uuid")) \/ ~world.raster.available
         THEN "RasterioIOError"
    ELSE "None"

NewCatalog(uri) ==
    /\ imgPc = "new"
    /\ imgErr' = InitError(uri)
    /\ IF InitError(uri) = "None"
       THEN imgPc' = "ready" /\ img' = Constructed(uri)
       ELSE imgPc' = "raised" /\ img' = [kind |-> "None", metadata_url |-> uri]
    /\ UNCHANGED <<cfgVars, regVars, sceneVars, world, req, yielded, hdr>>

(***************************************************************************)
(* OINMetaCatalog.get_sources(bounds, resolution)                          *)
(***************************************************************************)
ReqRes == {<<1, 1>>, <<16, 24>>, <<40000, 30000>>}

\* lines 155-163: the left or the right edge of the request lies within the
\* catalog's x range, and the bottom or the top edge within its y range.
SpatialTest(b, left, bottom, right, top) ==
    /\ \/ (b[1] <= left /\ left <= b[3])
       \/ (b[1] <= right /\ right <= b[3])
    /\ \/ (b[2] <= bottom /\ bottom <= b[4])
       \/ (b[2] <= top /\ top <= b[4])

ZoomTest(c, zoom) == c.minzoom <= zoom /\ zoom <= c.maxzoom

Source(c) ==
    [url |-> c.source, name |-> c.name, resolution |-> c.resolution,
     band_info |-> "{}", meta |-> c.meta, values |-> c.values,
     recipes |-> "imagery"]

get_sources(c, bounds, bounds_crs, resolution) ==
    LET zoom == get_zoom(Max2(resolution), "round")
        box == transform_bounds(bounds_crs, bounds)
    IN  IF SpatialTest(c.bounds, box[1], box[2], box[3], box[4]) /\ ZoomTest(c, zoom)
        THEN <<Source(c)>>
        ELSE <<>>

\* A call reads the catalog and its arguments and writes nothing a later
\* call reads, so the model follows one call per catalog.
GetSources(bounds, bounds_crs, resolution) ==
    /\ imgPc = "ready"
    /\ req = Nothing
    /\ req' = [kind |-> "get_sources", bounds |-> bounds, crs |-> bounds_crs,
               resolution |-> resolution]
    /\ yielded' = get_sources(img, bounds, bounds_crs, resolution)
    /\ UNCHANGED <<cfgVars, regVars, sceneVars, world, imgPc, img, imgErr, hdr>>

(***************************************************************************)
(* OINMetaCatalog.headers                                                  *)
(***************************************************************************)
\* arrow.get(date).format(fmt): the date, written in the format.
Format(date, fmt) == <<date, fmt>>

\* unicodedata.normalize("NFKD", name): U+00E9 decomposes into e and the
\* combining accent U+0301.
RECURSIVE Nfkd(_)
Nfkd(str) ==
    IF str = <<>> THEN <<>>
    ELSE (IF Head(str) = "U+00E9" THEN <<"e", "U+0301">> ELSE <<Head(str)>>)
         \o Nfkd(Tail(str))

\* .encode("ascii", "ignore"): the characters outside ASCII are dropped.
RECURSIVE AsciiIgnore(_)
AsciiIgnore(str) ==
    IF str = <<>> THEN <<>>
    ELSE (IF Head(str) \in {"U+00E9", "U+0301"} THEN <<>> ELSE <<Head(str)>>)
         \o AsciiIgnore(Tail(str))

\* Whether the date block is entered, and which of its branches assigns
\* capture_range: "both", "start", "end", or "none" (no branch does).
DateBlock(meta) == Has(meta, "acquisition_start") \/ Has(meta, "acquisition_end")
DateBranch(meta) ==
    LET start == Get(meta, "acquisition_start")
        end == Get(meta, "acquisition_end")
    IN  IF Truthy(start) /\ Truthy(end) THEN "both"
        ELSE IF Truthy(start) THEN "start"
        ELSE IF Truthy(end) THEN "end"
        ELSE "none"

HeaderKeys(meta) ==
    {"X-OIN-Metadata-URL"}
    \cup (IF DateBlock(meta) /\ DateBranch(meta) \in {"both", "start"}
          THEN {"X-OIN-Acquisition-Start"} ELSE {})
    \cup (IF DateBlock(meta) /\ DateBranch(meta) \in {"both", "end"}
          THEN {"X-OIN-Acquisition-End"} ELSE {})
    \cup (IF DateBlock(meta) THEN {"X-VE-TILEMETA-CaptureDatesRange"} ELSE {})
    \cup (IF Has(meta, "provider") THEN {"X-OIN-Provider"} ELSE {})
    \cup (IF Has(meta, "platform") THEN {"X-OIN-Platform"} ELSE {})

HeaderValue(c, key) ==
    LET start == Get(c.meta, "acquisition_start")
        end == Get(c.meta, "acquisition_end")
    IN  CASE key = "X-OIN-Metadata-URL" -> c.metadata_url
          [] key = "X-OIN-Acquisition-Start" -> Format(start, "YYYY-MM-DDTHH:mm:ssZZ")
          [] key = "X-OIN-Acquisition-End" -> Format(end, "YYYY-MM-DDTHH:mm:ssZZ")
          [] key = "X-VE-TILEMETA-CaptureDatesRange" ->
                IF DateBranch(c.meta) = "both"
                THEN Format(start, "M/D/YYYY") \o <<"-">> \o Format(end, "M/D/YYYY")
                ELSE IF DateBranch(c.meta) = "start" THEN Format(start, "M/D/YYYY")
                ELSE Format(end, "M/D/YYYY")
          [] key = "X-OIN-Provider" -> AsciiIgnore(Nfkd(NameChars(c.meta.provider)))
          [] key = "X-OIN-Platform" -> AsciiIgnore(Nfkd(NameChars(c.meta.platform)))

\* The property's outcome: the mapping, or the UnboundLocalError that line
\* 208 raises when the date block is entered and no branch has assigned
\* capture_range.
headers(c) ==
    IF DateBlock(c.meta) /\ DateBranch(c.meta) = "none"
    THEN [kind |-> "UnboundLocalError", headers |-> <<>>]
    ELSE [kind |-> "headers",
          headers |-> [key \in HeaderKeys(c.meta) |-> HeaderValue(c, key)]]

Headers ==
    /\ imgPc = "ready"
    /\ hdr' = headers(img)
    /\ UNCHANGED <<cfgVars, regVars, sceneVars, world, imgPc, img, imgErr, req, yielded>>

InitImage ==
    /\ fn = "make_catalog"
    /\ RegistryStart
    /\ declared = <<>>
    /\ SceneIdle
    /\ world \in Worlds
    /\ imgPc = "new"
    /\ img = Nothing
    /\ imgErr = "None"
    /\ req = Nothing
    /\ yielded = <<>>
    /\ hdr = Nothing
    /\ ConfigIdle

NextImage ==
    \/ \E uri \in URIs : NewCatalog(uri)
    \/ \E box \in WgsBoxes, res \in ReqRes : GetSources(box, WGS84_CRS, res)
    \/ \E box \in HalfDegreeBoxes, res \in ReqRes :
          GetSources(InCRS(HalfDegreeCRS, box), HalfDegreeCRS, res)
    \/ Headers

SpecImage == InitImage /\ [][NextImage]_vars

(***************************************************************************)
(* Image catalog claims.                                                   *)
(***************************************************************************)
\* The request box of the last get_sources call, reprojected to WGS84, and
\* the zoom of its resolution.
ReqBox == transform_bounds(req.crs, req.bounds)
ReqZoom == get_zoom(Max2(req.resolution), "round")
Called == imgPc = "ready" /\ req # Nothing

\* Two boxes overlap iff their intervals intersect on both axes, touching
\* edges included.
Overlaps(a, b) ==
    /\ a[1] <= b[3] /\ b[1] <= a[3]
    /\ a[2] <= b[4] /\ b[2] <= a[4]

\* C2 (as claimed): get_sources yields the catalog's own Source, once, if the
\* reprojected request box overlaps the catalog bounds and the request zoom
\* is within [minzoom, maxzoom], and yields nothing otherwise.
C2_YieldsIffOverlap ==
    Called =>
        IF Overlaps(img.bounds, ReqBox) /\ img.minzoom <= ReqZoom /\ ReqZoom <= img.maxzoom
        THEN Len(yielded) = 1 /\ yielded[1].url = img.source
        ELSE yielded = <<>>

\* C9 (as claimed): the spatial test is symmetric: within the zoom range, the
\* call yields a Source exactly if a catalog whose bounds are the request box
\* yields one for a request whose box is this catalog's bounds.
C9_SpatialTestSymmetric ==
    (Called /\ img.minzoom <= ReqZoom /\ ReqZoom <= img.maxzoom) =>
        ((yielded # <<>>) <=>
         (get_sources([img EXCEPT !.bounds = ReqBox], img.bounds, WGS84_CRS,
                      req.resolution) # <<>>))

\* C7 (as claimed): when the construction of an image catalog fails, it
\* fails with NoCatalogAvailable.
C7_OnlyNoCatalogAvailable ==
    imgPc = "raised" => imgErr = "NoCatalogAvailable"

\* C8 (as claimed): headers is a mapping that holds X-OIN-Metadata-URL, the
\* capture-dates range iff a start or an end date is present, and the
\* acquisition start (end) iff the start (end) date is present; a field that
\* is there with a null or empty value counts as no date.
DatePresent(v) == v \notin {Absent, Null, ""}
C8_HeaderKeys ==
    (imgPc = "ready" /\ hdr # Nothing) =>
        /\ hdr.kind = "headers"
        /\ LET keys == DOMAIN hdr.headers
               s == DatePresent(img.meta.acquisition_start)
               e == DatePresent(img.meta.acquisition_end)
           IN  /\ "X-OIN-Metadata-URL" \in keys
               /\ ("X-VE-TILEMETA-CaptureDatesRange" \in keys) <=> (s \/ e)
               /\ ("X-OIN-Acquisition-Start" \in keys) <=> s
               /\ ("X-OIN-Acquisition-End" \in keys) <=> e

\* C10: with z the ceiling of the zoom of the catalog's resolution (the one
\* integer z with 2^(UnitZoom - z) <= resolution < 2^(UnitZoom - z + 1)),
\* center.zoom = z - 3 = maxzoom - 6, minzoom = center.zoom - 7,
\* maxzoom - minzoom = 13 and minzoom < maxzoom.
C10_ZoomRange ==
    imgPc = "ready" =>
        \E z \in 0..UnitZoom :
            /\ Pow2(UnitZoom - z) <= Max2(img.resolution)
            /\ Max2(img.resolution) < Pow2(UnitZoom - z + 1)
            /\ img.center[3] = z - 3
            /\ img.center[3] = img.maxzoom - 6
            /\ img.minzoom = img.center[3] - 7
            /\ img.maxzoom - img.minzoom = 13
            /\ img.minzoom < img.maxzoom

\* C10 witness: a catalog built from a raster whose coarser pixel size, 24
\* units, is no power of two, so that the ceiling rounds up.
C10_Witness ==
    /\ imgPc = "ready"
    /\ img.resolution = <<24, 16>>
    /\ img.center[3] = UnitZoom - 4 - 3
    /\ img.maxzoom = UnitZoom - 4 + 3
    /\ img.minzoom = UnitZoom - 4 - 10

(***************************************************************************)
(* S3 configuration (web.py, module import) and the objects that           *)
(* make_catalog asks S3 for.  Strings are sequences of characters.         *)
(***************************************************************************)
\* The longest S3_PREFIX value found in the environment.
MaxPrefixLen == 3
PrefixChars == {"/", "p"}

RECURSIVE StringsUpTo(_)
StringsUpTo(n) ==
    IF n = 0 THEN {<<>>}
    ELSE LET S == StringsUpTo(n - 1)
         IN  S \cup {Append(str, c) : str \in S, c \in PrefixChars}

\* os.getenv("S3_PREFIX", ""): unset reads as the empty string.
EnvPrefixes == StringsUpTo(MaxPrefixLen)
\* os.getenv("S3_BUCKET"), configured.
EnvBuckets == {<<"b">>, <<"o", "a", "m">>}

\* The arguments of make_catalog.  NoImage stands for an image_id that is
\* None or empty: either way "if image_id" is false.
SceneIds == {<<"s">>, <<"5", "9", "e">>}
SceneIdxs == {0, 1}
NoImage == <<>>
ImageIds == {NoImage, <<"i">>}

\* str.endswith(suffix)
endswith(str, suffix) ==
    /\ Len(str) >= Len(suffix)
    /\ SubSeq(str, Len(str) - Len(suffix) + 1, Len(str)) = suffix

Slash == <<"/">>

\* lines 31-38: the three steps of "normalize prefix", in order.
NormalizePrefix(prefix) ==
    LET p1 == IF prefix = Slash THEN <<>> ELSE prefix
        p2 == IF ~endswith(p1, Slash) THEN p1 \o Slash ELSE p1
    IN  IF startswith(p2, Slash) THEN Tail(p2) ELSE p2

\* "{}".format(scene_idx) for the one-digit indexes of the model
Digits == <<"0", "1", "2", "3", "4", "5", "6", "7", "8", "9">>
Str(i) == <<Digits[i + 1]>>

SceneJson == <<"s", "c", "e", "n", "e", ".", "j", "s", "o", "n">>
MetaJson == <<"_", "m", "e", "t", "a", ".", "j", "s", "o", "n">>

\* "s3://{}/{}{}/{}/{}_meta.json".format(S3_BUCKET, S3_PREFIX, scene_id,
\*                                       scene_idx, image_id)
ImageUri(bucket, prefix, scene_id, scene_idx, image_id) ==
    S3Scheme \o bucket \o Slash \o prefix \o scene_id \o Slash
        \o Str(scene_idx) \o Slash \o image_id \o MetaJson

\* "s3://{}{}/{}/{}/scene.json".format(S3_BUCKET, S3_PREFIX, scene_id,
\*                                     scene_idx)
SceneUri(bucket, prefix, scene_id, scene_idx) ==
    S3Scheme \o bucket \o prefix \o scene_id \o Slash
        \o Str(scene_idx) \o Slash \o SceneJson

\* make_catalog's choice of URI
CatalogUri(scene_id, scene_idx, image_id) ==
    IF image_id # NoImage
    THEN ImageUri(S3_BUCKET, S3_PREFIX, scene_id, scene_idx, image_id)
    ELSE SceneUri(S3_BUCKET, S3_PREFIX, scene_id, scene_idx)

\* urlparse(uri) for an s3:// URI without query or fragment: netloc runs from
\* after "//" to the first "/", path is the rest.
AfterScheme(uri) == SubSeq(uri, Len(S3Scheme) + 1, Len(uri))
FirstSlash(str) ==
    IF \E i \in 1..Len(str) : str[i] = "/"
    THEN CHOOSE i \in 1..Len(str) :
            str[i] = "/" /\ \A j \in 1..(i - 1) : str[j] # "/"
    ELSE Len(str) + 1
netloc(uri) == SubSeq(AfterScheme(uri), 1, FirstSlash(AfterScheme(uri)) - 1)
path(uri) ==
    SubSeq(AfterScheme(uri), FirstSlash(AfterScheme(uri)), Len(AfterScheme(uri)))

\* S3.get_object(Bucket=url.netloc, Key=url.path[1:])
GetObject(uri) == [Bucket |-> netloc(uri), Key |-> SubSeq(path(uri), 2, Len(path(uri)))]

\* Module import: lines 28-38.
NormalizeConfig ==
    /\ cfgPc = "import"
    /\ S3_PREFIX' = NormalizePrefix(S3_PREFIX)
    /\ cfgPc' = "serving"
    /\ UNCHANGED <<regVars, sceneVars, imgVars, S3_BUCKET, fetched>>

\* make_catalog(scene_id, scene_idx, image_id) up to the constructor's
\* get_object call: the URI is formatted from the globals and parsed back
\* into a bucket and a key.
MakeCatalogFetch(scene_id, scene_idx, image_id) ==
    /\ cfgPc = "serving"
    /\ LET uri == CatalogUri(scene_id, scene_idx, image_id)
       IN  fetched' = fetched \cup
               {[scene_id |-> scene_id, scene_idx |-> scene_idx,
                 image_id |-> image_id, uri |-> uri,
                 Bucket |-> GetObject(uri).Bucket, Key |-> GetObject(uri).Key]}
    /\ fetched' # fetched
    /\ UNCHANGED <<regVars, sceneVars, imgVars, S3_BUCKET, S3_PREFIX, cfgPc>>

InitConfig ==
    /\ fn = "make_catalog"
    /\ RegistryStart
    /\ declared = <<>>
    /\ SceneIdle
    /\ ImageIdle
    /\ S3_BUCKET \in EnvBuckets
    /\ S3_PREFIX \in EnvPrefixes
    /\ cfgPc = "import"
    /\ fetched = {}

NextConfig ==
    \/ NormalizeConfig
    \/ \E scene_id \in SceneIds, scene_idx \in SceneIdxs, image_id \in ImageIds :
          MakeCatalogFetch(scene_id, scene_idx, image_id)

SpecConfig == InitConfig /\ [][NextConfig]_vars

(***************************************************************************)
(* Configuration claims.                                                   *)
(***************************************************************************)
\* The key prefix of a scene's objects: <prefix><scene_id>/<scene_idx>/
KeyStem(f) == S3_PREFIX \o f.scene_id \o Slash \o Str(f.scene_idx) \o Slash

====
